---- MODULE Spec2Model ----
(***************************************************************************)
(* A model of the two revisions of the LinkedIn auto-poster kept in this   *)
(* repository: src/plan.py and src/viral_bot.py.  One process run is       *)
(* load_history -> fetch_content -> generate_viral_post ->                 *)
(* post_to_linkedin -> save_history; viral_bot.py wraps the last four in   *)
(* a loop of at most five attempts.  Runs follow one another and share     *)
(* history.json.                                                           *)
(*                                                                         *)
(* Strings the code inspects character by character (links, image URLs)    *)
(* are sequences of one-character strings.  Body text is kept as its       *)
(* length, computed from the lengths of the elements it is joined from.    *)
(***************************************************************************)
EXTENDS Integers, Sequences, FiniteSets, TLC

\* ------------------------------------------------------------- bounds
\* Number of process runs that follow one another on the same history.json.
MaxRuns == 2

\* ---------------------------------------------------------- constants
\* save_history keeps the last 200 records.
HistoryCap == 200
\* The extractor's minimum body length, and its truncation length.
MinTextLen == 600
MaxTextLen_plan == 15000
MaxTextLen_viral == 12000
\* feed.entries[:5] in plan.py, feed.entries[:3] in viral_bot.py.
TopN_plan == 5
TopN_viral == 3
\* range(1, 6): the attempts of viral_bot.py's main loop.
MaxAttempts == 5
\* Strategy 4's size test: w > 400 or h > 300.
MinImgWidth == 400
MinImgHeight == 300

Progs == {"plan", "viral"}

\* ------------------------------------------------------------ strings
\* s.startswith(p)
StartsWith(s, p) ==
    /\ Len(s) >= Len(p)
    /\ SubSeq(s, 1, Len(p)) = p

\* sub in s
Contains(s, sub) ==
    \E i \in 0..(Len(s) - Len(sub)) : SubSeq(s, i + 1, i + Len(sub)) = sub

\* c.lower() for the letters the model uses.
LowerChar(c) ==
    CASE c = "L" -> "l"
      [] c = "O" -> "o"
      [] c = "G" -> "g"
      [] OTHER -> c

\* s.lower()
Lower(s) == [i \in 1..Len(s) |-> LowerChar(s[i])]

\* s.split(sep) for a one-character sep: the pieces between the separators.
RECURSIVE Split(_, _)
Split(s, sep) ==
    IF \A i \in 1..Len(s) : s[i] # sep
    THEN <<s>>
    ELSE LET k == CHOOSE i \in 1..Len(s) :
                      /\ s[i] = sep
                      /\ \A j \in 1..(i - 1) : s[j] # sep
         IN <<SubSeq(s, 1, k - 1)>> \o Split(SubSeq(s, k + 1, Len(s)), sep)

\* plan.py: clean_url
clean_url(url) ==
    IF \E i \in 1..Len(url) : url[i] = "?"
    THEN Split(url, "?")[1]
    ELSE url

\* viral_bot.py: link.split("?")[0]
SplitLink(link) == Split(link, "?")[1]

\* A normalisation that keeps the query string.
NormLink_KeepQuery(p, link) == link

\* The link normalisation of each program.
NormLink(p, link) == IF p = "plan" THEN clean_url(link) ELSE SplitLink(link)

\* ------------------------------------------------------------ history
\* A test that compares the links only.
is_already_posted_LinkOnly(p, link, title, history_data) ==
    LET normalized_link == NormLink(p, link)
    IN \E i \in 1..Len(history_data) : history_data[i].web_link = normalized_link

\* entry.get("web_link") == normalized_link or entry.get("title") == title,
\* for some entry of history_data.
is_already_posted(p, link, title, history_data) ==
    LET normalized_link == NormLink(p, link)
    IN \E i \in 1..Len(history_data) :
           \/ history_data[i].web_link = normalized_link
           \/ history_data[i].title = title

\* The record save_history builds.
HistoryEntry(p, title, link, day) ==
    [title |-> title, web_link |-> NormLink(p, link), date |-> day]

\* history_data[-200:]
LastN(s, n) == IF Len(s) > n THEN SubSeq(s, Len(s) - n + 1, Len(s)) ELSE s

\* What save_history writes to history.json: the caller's list with the
\* entry appended, cut to its last 200 records.
SavedFile(appended) ==
    IF Len(appended) > HistoryCap THEN LastN(appended, HistoryCap) ELSE appended

\* What the caller's list holds after save_history: append() changes the
\* caller's list; the slice is bound to the local name only.
CallerList(appended) == appended

\* ---------------------------------------------------------- documents
\* None, and the empty or missing string (both falsy in the code).
None == [none |-> TRUE]
NoUrl == <<>>

Http == <<"h", "t", "t", "p">>
ImgClean == Http \o <<"/", "a">>
ImgClean2 == Http \o <<"/", "b">>
ImgLogo == Http \o <<"/", "l", "o", "g", "o">>
ImgLogoUp == Http \o <<"/", "L", "O", "G", "O">>
ImgRel == <<"/", "a">>

\* viral_bot.py: FALLBACK_IMAGES
FALLBACK_IMAGES ==
    << Http \o <<"/", "f", "1">>, Http \o <<"/", "f", "2">>,
       Http \o <<"/", "f", "3">>, Http \o <<"/", "f", "4">>,
       Http \o <<"/", "f", "5">> >>

\* The markers of strategy 4: logo, icon, avatar, pixel, tracking, 1x1.
SkipMarkers ==
    { <<"l", "o", "g", "o">>, <<"i", "c", "o", "n">>,
      <<"a", "v", "a", "t", "a", "r">>, <<"p", "i", "x", "e", "l">>,
      <<"t", "r", "a", "c", "k", "i", "n", "g">>, <<"1", "x", "1">> }

\* any(skip in src.lower() for skip in [...])
HasSkipMarker(src) == \E m \in SkipMarkers : Contains(Lower(src), m)

El(tag, n) == [tag |-> tag, n |-> n]
Img(src, w, h) == [src |-> src, w |-> w, h |-> h]

\* An HTTP response to requests.get(link): its status, the elements of the
\* chosen body container (tag and stripped text length), the two meta
\* images, the src found by each hero selector that matches, and the img
\* elements of the container (src, width, height; 0 for a width or height
\* that is missing or not a number).  exc: requests.get raised instead.
Doc(status, elems, twitter, og, hero, imgs) ==
    [exc |-> FALSE, status |-> status, elems |-> elems, twitter |-> twitter,
     og |-> og, hero |-> hero, imgs |-> imgs]

Text(n) == <<El("p", n)>>

PageIds ==
    {"ok", "short", "t599", "e404", "long", "li", "noimg", "twlogo", "imgs",
     "small", "hero", "exc"}

Page(id) ==
    CASE id = "ok" ->
           Doc(200, <<El("p", 300), El("h2", 299)>>, ImgClean, NoUrl, <<>>, <<>>)
      [] id = "short" ->
           Doc(200, Text(400), ImgClean, NoUrl, <<>>, <<>>)
      [] id = "t599" ->
           Doc(200, <<El("p", 299), El("p", 299)>>, NoUrl, ImgClean, <<>>, <<>>)
      [] id = "e404" ->
           Doc(404, Text(2000), NoUrl, ImgClean, <<>>, <<>>)
      [] id = "long" ->
           Doc(200, Text(20000), NoUrl, ImgClean2, <<>>, <<>>)
      [] id = "li" ->
           Doc(200, <<El("p", 300), El("li", 400)>>, NoUrl, ImgClean, <<>>, <<>>)
      [] id = "noimg" ->
           Doc(200, Text(2000), NoUrl, NoUrl, <<>>, <<Img(ImgRel, 500, 400)>>)
      [] id = "twlogo" ->
           Doc(200, Text(2000), ImgLogo, ImgClean, <<>>, <<>>)
      [] id = "imgs" ->
           Doc(200, Text(2000), NoUrl, NoUrl, <<ImgRel>>,
               <<Img(ImgRel, 500, 0), Img(ImgLogo, 0, 0), Img(ImgClean, 500, 0)>>)
      [] id = "small" ->
           Doc(200, Text(2000), NoUrl, NoUrl, <<>>,
               <<Img(ImgLogoUp, 0, 0), Img(ImgClean, 100, 100)>>)
      [] id = "hero" ->
           Doc(200, Text(2000), NoUrl, NoUrl, <<ImgRel, ImgClean2>>,
               <<Img(ImgLogo, 0, 0), Img(ImgClean2, 0, 0)>>)
      [] OTHER ->
           [exc |-> TRUE, status |-> 0, elems |-> <<>>, twitter |-> NoUrl,
            og |-> NoUrl, hero |-> <<>>, imgs |-> <<>>]

\* ---------------------------------------------------------- extractor
\* The index at which a loop with "break" stops: the first TRUE of the
\* tests of the elements, 0 when none is.
FirstTrue(tests) ==
    IF \E i \in 1..Len(tests) : tests[i]
    THEN CHOOSE i \in 1..Len(tests) :
             /\ tests[i]
             /\ \A j \in 1..(i - 1) : ~tests[j]
    ELSE 0

RECURSIVE SumLen(_)
SumLen(s) == IF s = <<>> THEN 0 ELSE Head(s).n + SumLen(Tail(s))

\* len("\n".join(texts)) for the elements whose tag is in tags.
JoinedLen(elems, tags) ==
    LET sel == SelectSeq(elems, LAMBDA e : e.tag \in tags)
    IN IF sel = <<>> THEN 0 ELSE SumLen(sel) + (Len(sel) - 1)

\* plan.py joins p, h2 and li; viral_bot.py joins p and h2.
TextTags(p) == IF p = "plan" THEN {"p", "h2", "li"} ELSE {"p", "h2"}
BodyLen(p, doc) == JoinedLen(doc.elems, TextTags(p))

\* The gate with the threshold of 300.
TooShort_300(n) == n < 300

\* The gate both extractors apply: len(text) < 600 returns None.
TooShort(n) == n < MinTextLen

\* text[:15000], text[:12000]
Truncate(n, max) == IF n > max THEN max ELSE n

\* plan.py: get_article_text.  The status of the response is not read.
get_article_text(doc) ==
    IF doc.exc THEN None
    ELSE IF TooShort(BodyLen("plan", doc)) THEN None
    ELSE [text |-> Truncate(BodyLen("plan", doc), MaxTextLen_plan)]

\* Strategy 1: the twitter:image meta.
Strategy1(doc) == doc.twitter

\* Strategy 2: the og:image meta.
Strategy2(doc) == doc.og

\* Strategy 3: the first hero selector whose image has an http src.
Strategy3(doc) ==
    LET k == FirstTrue([i \in 1..Len(doc.hero) |->
                            doc.hero[i] # NoUrl /\ StartsWith(doc.hero[i], Http)])
    IN IF k = 0 THEN NoUrl ELSE doc.hero[k]

\* Strategy 4's test of one img.
LargeContentImage(img) ==
    /\ StartsWith(img.src, Http)
    /\ \/ img.w > MinImgWidth
       \/ img.h > MinImgHeight
       \/ (img.w = 0 /\ img.h = 0)
    /\ ~HasSkipMarker(img.src)

\* Strategy 4: the first large image of the content.
Strategy4(doc) ==
    LET k == FirstTrue([i \in 1..Len(doc.imgs) |-> LargeContentImage(doc.imgs[i])])
    IN IF k = 0 THEN NoUrl ELSE doc.imgs[k].src

\* Strategy 5: the first img, when its src starts with http.
Strategy5(doc) ==
    IF doc.imgs # <<>> /\ doc.imgs[1].src # NoUrl /\ StartsWith(doc.imgs[1].src, Http)
    THEN doc.imgs[1].src
    ELSE NoUrl

\* The cascade of strategies 1 to 5: each runs only if the ones before it
\* found nothing.
ImageCascade(doc) ==
    IF Strategy1(doc) # NoUrl THEN Strategy1(doc)
    ELSE IF Strategy2(doc) # NoUrl THEN Strategy2(doc)
    ELSE IF Strategy3(doc) # NoUrl THEN Strategy3(doc)
    ELSE IF Strategy4(doc) # NoUrl THEN Strategy4(doc)
    ELSE Strategy5(doc)

\* Strategy 6 left out.
WithFallback_Never(image_url, mode, pick) == image_url

\* Strategy 6: random.choice(FALLBACK_IMAGES) (pick) in CONCEPT mode only.
WithFallback(image_url, mode, pick) ==
    IF image_url = NoUrl /\ mode = "CONCEPT" THEN FALLBACK_IMAGES[pick] ELSE image_url

\* viral_bot.py: get_article_details.  The status of the response is not
\* read.
get_article_details(doc, mode, pick) ==
    IF doc.exc THEN None
    ELSE IF TooShort(BodyLen("viral", doc)) THEN None
    ELSE LET image_url == WithFallback(ImageCascade(doc), mode, pick)
         IN IF image_url = NoUrl THEN None
            ELSE [text |-> Truncate(BodyLen("viral", doc), MaxTextLen_viral),
                  image |-> image_url]

\* -------------------------------------------------------------- feeds
LA == <<"a">>
LAq == <<"a", "?", "u">>
LB == <<"b">>
LBq == <<"b", "?", "u", "?", "v">>
LC == <<"c">>
LOld == <<"o">>

\* A feed entry: its title and link (attrs: which of the two the entry
\* carries), the response its link serves, and the url of its first
\* media_content ("" when it has none).
Entry(title, link, page) ==
    [title |-> title, link |-> link, attrs |-> {"title", "link"},
     page |-> page, media |-> NoUrl]
EntryMedia(title, link, page, media) ==
    [title |-> title, link |-> link, attrs |-> {"title", "link"},
     page |-> page, media |-> media]
NoTitle(link, page) ==
    [title |-> "", link |-> link, attrs |-> {"link"}, page |-> page, media |-> NoUrl]
NoLink(title, page) ==
    [title |-> title, link |-> <<>>, attrs |-> {"title"}, page |-> page, media |-> NoUrl]

\* The feeds feedparser.parse may return for a source.
Feeds ==
    { <<>>,
      <<Entry("T2", LAq, "ok")>>,
      <<Entry("T1", LC, "twlogo")>>,
      <<Entry("T3", LA, "short"), Entry("T3", LBq, "ok")>>,
      <<Entry("T3", LB, "e404")>>,
      <<NoTitle(LAq, "ok")>>,
      <<NoLink("T1", "ok"), Entry("T3", LBq, "long")>>,
      <<Entry("T3", LB, "noimg")>>,
      <<Entry("T3", LB, "t599"), Entry("T3", LB, "li")>>,
      <<Entry("T3", LB, "exc"), Entry("T3", LB, "small")>>,
      <<Entry("T3", LBq, "imgs")>>,
      <<Entry("T3", LB, "hero")>>,
      <<EntryMedia("T3", LB, "noimg", ImgClean2)>>,
      <<Entry("T3", LB, "short"), Entry("T3", LB, "exc"), Entry("T3", LB, "t599"),
        Entry("T3", LB, "ok"), Entry("T3", LB, "short"), Entry("T3", LB, "long")>> }

\* feed.entries[:N]
TopN(p) == IF p = "plan" THEN TopN_plan ELSE TopN_viral
Window(p, entries) ==
    IF Len(entries) > TopN(p) THEN SubSeq(entries, 1, TopN(p)) ELSE entries

\* len(NEWS_FEEDS), len(ENGINEERING_FEEDS) of each program.
NumSources(p, m) ==
    IF p = "plan"
    THEN (IF m = "CONCEPT" THEN 8 ELSE 4)
    ELSE (IF m = "CONCEPT" THEN 9 ELSE 3)

\* The environment variables the programs read.
EnvVars == {"LINKEDIN_TOKEN", "LINKEDIN_URN", "GEMINI_API_KEY"}

\* ------------------------------------------------------ history files
R1 == [title |-> "T1", web_link |-> LA, date |-> 0]
Filler(i) == [title |-> "T0", web_link |-> LOld, date |-> 0 - i]

\* history.json as earlier runs may have left it: absent or empty, one
\* record, and a full file of 200 records whose oldest is R1.
InitFiles ==
    { <<>>,
      <<R1>>,
      [i \in 1..HistoryCap |-> IF i = 1 THEN R1 ELSE Filler(HistoryCap - i)] }

\* -------------------------------------------------------------- state
VARIABLES
    prog,                 \* which script runs: plan.py or viral_bot.py
    run,                  \* the number of this process run
    file,                 \* the array in history.json
    creds,                \* the environment variables that are set, non-empty
    pc,                   \* the position of the process
    history,              \* __main__: history
    attempt,              \* viral_bot.py __main__: attempt
    posted_successfully,  \* viral_bot.py __main__: posted_successfully
    mode,                 \* fetch_content: mode
    idx,                  \* fetch_content: sources consulted so far
    feed,                 \* fetch_content: feed.entries[:N] of the current source
    pos,                  \* fetch_content: entries of it taken so far
    details,              \* fetch_content: what the extractor returned last
    content,              \* __main__: content
    post_text,            \* __main__: post_text ("" for None)
    asset,                \* post_to_linkedin: asset ("" for None)
    reg_ok,               \* registerUpload answered 200 in this call
    up_ok,                \* the image was downloaded and its upload answered 201
    ugc,                  \* the ugcPosts request this call sent, None before
    final_ok,             \* that request answered 201
    post_result,          \* what post_to_linkedin returned
    raised,               \* the function an uncaught exception left, "" if none
    valid_models,         \* plan.py generate_viral_post: valid_models
    mi,                   \* plan.py generate_viral_post: models the loop has taken
    gen_status,           \* plan.py generate_viral_post: the answer to the last request
    requested,            \* the models requested in this call, in order
    published,            \* ugcPosts requests answered 201 in this run
    exit_code,            \* the exit status of the run that ended
    missed,               \* fetch_content: entries passed over although eligible
    all_matched,          \* every entry of every feed parsed so far is in history
    saved                 \* the (link, record) pairs save_history has recorded

vars ==
    <<prog, run, file, creds, pc, history, attempt, posted_successfully, mode,
      idx, feed, pos, details, content, post_text, asset, reg_ok, up_ok, ugc,
      final_ok, post_result, raised, exit_code, missed, all_matched, saved,
      valid_models, mi, gen_status, requested, published>>

fetchVars == <<mode, idx, feed, pos, details, missed, all_matched>>
postVars == <<asset, reg_ok, up_ok, ugc, final_ok, post_result>>
worldVars == <<prog, run, file, creds, saved>>
genVars == <<valid_models, mi, gen_status, requested>>

\* The sets of environment variables a run may find: all three, or all
\* but one.
CredSets == {EnvVars} \cup {EnvVars \ {v} : v \in EnvVars}

Init ==
    /\ prog \in Progs
    /\ run = 1
    /\ file \in InitFiles
    /\ creds \in CredSets
    /\ pc = "start"
    /\ history = <<>>
    /\ attempt = 0
    /\ posted_successfully = FALSE
    /\ mode = "NEWS"
    /\ idx = 0
    /\ feed = <<>>
    /\ pos = 0
    /\ details = None
    /\ content = None
    /\ post_text = ""
    /\ asset = ""
    /\ reg_ok = FALSE
    /\ up_ok = FALSE
    /\ ugc = None
    /\ final_ok = FALSE
    /\ post_result = FALSE
    /\ raised = ""
    /\ exit_code = 0
    /\ missed = {}
    /\ all_matched = TRUE
    /\ saved = {}
    /\ valid_models = <<>>
    /\ mi = 0
    /\ gen_status = ""
    /\ requested = <<>>
    /\ published = 0

\* The process ends with the given status.
Exit(code) ==
    /\ pc' = "done"
    /\ exit_code' = code

\* An exception no handler catches leaves function fn and ends the process
\* (the interpreter exits with status 1).
Raise(fn) ==
    /\ raised' = fn
    /\ Exit(1)

\* ----------------------------------------------------------- __main__
\* viral_bot.py verifies the three credentials and exits with 1 when one
\* is missing; plan.py reads them and goes on.
Start ==
    /\ pc = "start"
    /\ IF prog = "viral" /\ creds # EnvVars
       THEN Exit(1)
       ELSE pc' = "load" /\ UNCHANGED exit_code
    /\ UNCHANGED <<genVars, published,
                   worldVars, fetchVars, postVars, history, attempt,
                   posted_successfully, content, post_text, raised>>

\* history = load_history()
Load ==
    /\ pc = "load"
    /\ history' = file
    /\ IF prog = "viral"
       THEN attempt' = 1 /\ pc' = "loop"
       ELSE attempt' = attempt /\ pc' = "fetch"
    /\ UNCHANGED <<genVars, published,
                   worldVars, fetchVars, postVars, posted_successfully, content,
                   post_text, raised, exit_code>>

\* A loop head without the break on posted_successfully.
LoopHead_NoBreak ==
    /\ pc = "loop"
    /\ prog = "viral"
    /\ IF attempt > MaxAttempts
       THEN Exit(IF posted_successfully THEN 0 ELSE 1)
       ELSE pc' = "fetch" /\ UNCHANGED exit_code
    /\ UNCHANGED <<genVars, published,
                   worldVars, fetchVars, postVars, history, attempt,
                   posted_successfully, content, post_text, raised>>

\* viral_bot.py: the head of "for attempt in range(1, 6)" with its break,
\* and the exit after the loop.
LoopHead ==
    /\ pc = "loop"
    /\ prog = "viral"
    /\ IF attempt > MaxAttempts \/ posted_successfully
       THEN Exit(IF posted_successfully THEN 0 ELSE 1)
       ELSE pc' = "fetch" /\ UNCHANGED exit_code
    /\ UNCHANGED <<genVars, published,
                   worldVars, fetchVars, postVars, history, attempt,
                   posted_successfully, content, post_text, raised>>

\* A loop body that ends without counting the attempt.
NextAttemptOrEnd_SameAttempt ==
    /\ IF prog = "viral"
       THEN attempt' = attempt /\ pc' = "loop" /\ UNCHANGED exit_code
       ELSE attempt' = attempt /\ Exit(0)
    /\ content' = None
    /\ post_text' = ""

\* viral_bot.py: "continue", or the end of the loop body: the next attempt.
\* plan.py: the script ends (exit() or its last line), with status 0.
\* content and post_text are not read again before they are assigned again.
NextAttemptOrEnd ==
    /\ IF prog = "viral"
       THEN attempt' = attempt + 1 /\ pc' = "loop" /\ UNCHANGED exit_code
       ELSE attempt' = attempt /\ Exit(0)
    /\ content' = None
    /\ post_text' = ""

\* The locals of fetch_content end with its call.
FetchLocalsGone ==
    /\ mode' = "NEWS"
    /\ idx' = 0
    /\ feed' = <<>>
    /\ pos' = 0
    /\ details' = None
    /\ missed' = {}
    /\ all_matched' = TRUE

\* The locals of post_to_linkedin end with its call.
PostLocalsGone ==
    /\ asset' = ""
    /\ reg_ok' = FALSE
    /\ up_ok' = FALSE
    /\ ugc' = None
    /\ final_ok' = FALSE
    /\ post_result' = FALSE

\* ------------------------------------------------------ fetch_content
WellFormed(e) == e.attrs = {"title", "link"}

\* What the extractor of program p returns for entry e, None or not.
Extracts(p, e, m) ==
    IF p = "plan"
    THEN get_article_text(Page(e.page)) # None
    ELSE get_article_details(Page(e.page), m, 1) # None

\* An entry fetch_content could have returned: it has a title and a link,
\* is not in history, and its extraction succeeds.
Eligible(p, e, m, h) ==
    /\ WellFormed(e)
    /\ ~is_already_posted(p, e.link, e.title, h)
    /\ Extracts(p, e, m)

\* The eligible ones among entries.
EligibleIn(p, entries, m, h) ==
    {entries[i] : i \in {j \in 1..Len(entries) : Eligible(p, entries[j], m, h)}}

\* An entry whose normalized link is a stored web_link or whose title is a
\* stored title.
InHistory(p, e, h) ==
    \/ /\ "link" \in e.attrs
       /\ \E i \in 1..Len(h) : h[i].web_link = NormLink(p, e.link)
    \/ /\ "title" \in e.attrs
       /\ \E i \in 1..Len(h) : h[i].title = e.title

\* mode = "CONCEPT" if random.random() > threshold else "NEWS";
\* random.shuffle(sources).  The sources are told apart by their place in
\* the shuffled list only.
FetchStart ==
    /\ pc = "fetch"
    /\ \E m \in {"CONCEPT", "NEWS"} : mode' = m
    /\ idx' = 0
    /\ feed' = <<>>
    /\ pos' = 0
    /\ details' = None
    /\ content' = None
    /\ missed' = {}
    /\ all_matched' = TRUE
    /\ pc' = "next_feed"
    /\ UNCHANGED <<genVars, published,
                   worldVars, postVars, history, attempt, posted_successfully,
                   post_text, raised, exit_code>>

\* The sources are exhausted: return None.
FetchExhausted ==
    /\ pc = "next_feed"
    /\ idx = NumSources(prog, mode)
    /\ content' = None
    /\ pc' = "fetched"
    /\ UNCHANGED <<genVars, published,
                   worldVars, fetchVars, postVars, history, attempt,
                   posted_successfully, post_text, raised, exit_code>>

\* feed = feedparser.parse(feed_url), and the window feed.entries[:N].
ParseFeed ==
    /\ pc = "next_feed"
    /\ idx < NumSources(prog, mode)
    /\ \E f \in Feeds :
           /\ feed' = Window(prog, f)
           /\ all_matched' =
                  (all_matched /\ \A i \in 1..Len(f) : InHistory(prog, f[i], history))
    /\ idx' = idx + 1
    /\ pos' = 0
    /\ pc' = "entry"
    /\ UNCHANGED <<genVars, published,
                   worldVars, postVars, history, attempt, posted_successfully,
                   mode, details, content, post_text, raised, exit_code, missed>>

\* feedparser.parse raises: both programs go on with the next source.
ParseError ==
    /\ pc = "next_feed"
    /\ idx < NumSources(prog, mode)
    /\ idx' = idx + 1
    /\ feed' = <<>>
    /\ pos' = 0
    /\ UNCHANGED <<genVars, published,
                   worldVars, postVars, pc, history, attempt, posted_successfully,
                   mode, details, content, post_text, raised, exit_code, missed,
                   all_matched>>

\* The window of the current source is used up: the next source.
FeedDone ==
    /\ pc = "entry"
    /\ pos = Len(feed)
    /\ pc' = "next_feed"
    /\ UNCHANGED <<genVars, published,
                   worldVars, fetchVars, postVars, history, attempt,
                   posted_successfully, content, post_text, raised, exit_code>>

\* entry.title or entry.link does not exist.  viral_bot.py reads them
\* inside the try that spans the whole source: the handler goes on with the
\* next source.  plan.py reads them outside any try: the AttributeError
\* leaves fetch_content and ends the run.
EntryMalformed ==
    /\ pc = "entry"
    /\ pos < Len(feed)
    /\ ~WellFormed(feed[pos + 1])
    /\ IF prog = "viral"
       THEN /\ pc' = "next_feed"
            /\ missed' = missed \cup
                   EligibleIn(prog, SubSeq(feed, pos + 1, Len(feed)), mode, history)
            /\ UNCHANGED <<raised, exit_code>>
       ELSE /\ Raise("fetch_content")
            /\ UNCHANGED missed
    /\ pos' = pos + 1
    /\ UNCHANGED <<genVars, published,
                   worldVars, postVars, history, attempt, posted_successfully,
                   mode, idx, feed, details, content, post_text, all_matched>>

\* is_already_posted(entry.link, entry.title, history_data): skip the entry.
EntryPosted ==
    /\ pc = "entry"
    /\ pos < Len(feed)
    /\ WellFormed(feed[pos + 1])
    /\ is_already_posted(prog, feed[pos + 1].link, feed[pos + 1].title, history)
    /\ pos' = pos + 1
    /\ missed' = missed \cup EligibleIn(prog, <<feed[pos + 1]>>, mode, history)
    /\ UNCHANGED <<genVars, published,
                   worldVars, postVars, pc, history, attempt, posted_successfully,
                   mode, idx, feed, details, content, post_text, raised, exit_code,
                   all_matched>>

\* The entry is not in history: the extractor is called for it.
EntryNew ==
    /\ pc = "entry"
    /\ pos < Len(feed)
    /\ WellFormed(feed[pos + 1])
    /\ ~is_already_posted(prog, feed[pos + 1].link, feed[pos + 1].title, history)
    /\ pos' = pos + 1
    /\ pc' = "extract"
    /\ UNCHANGED <<genVars, published,
                   worldVars, postVars, history, attempt, posted_successfully,
                   mode, idx, feed, details, content, post_text, raised, exit_code,
                   missed, all_matched>>

\* plan.py: the image of the item: the entry's first media_content, else
\* the og:image of a second download of the page (second), else None.
PlanImage(e, second) ==
    IF e.media # NoUrl THEN e.media
    ELSE IF second.exc THEN NoUrl
    ELSE second.og

Item(m, e, full_text, image_url) ==
    [type |-> m, title |-> e.title, link |-> e.link, full_text |-> full_text,
     image_url |-> image_url]

\* plan.py: full_text = get_article_text(entry.link); "continue" when it is
\* None, else find the image and return the item.
ExtractPlan ==
    /\ pc = "extract"
    /\ prog = "plan"
    /\ LET e == feed[pos]
           full_text == get_article_text(Page(e.page))
       IN /\ details' = full_text
          /\ IF full_text = None
             THEN /\ pc' = "entry"
                  /\ missed' = missed \cup EligibleIn(prog, <<e>>, mode, history)
                  /\ UNCHANGED content
             ELSE /\ \E second \in {Page(e.page), Page("exc")} :
                         content' = Item(mode, e, full_text.text, PlanImage(e, second))
                  /\ pc' = "fetched"
                  /\ UNCHANGED missed
    /\ UNCHANGED <<genVars, published,
                   worldVars, postVars, history, attempt, posted_successfully,
                   mode, idx, feed, pos, post_text, raised, exit_code, all_matched>>

\* viral_bot.py: details = get_article_details(entry.link, mode); "continue"
\* when it is None, else return the item.
ExtractViral ==
    /\ pc = "extract"
    /\ prog = "viral"
    /\ \E pick \in 1..Len(FALLBACK_IMAGES) :
           LET e == feed[pos]
               d == get_article_details(Page(e.page), mode, pick)
           IN /\ details' = d
              /\ IF d = None
                 THEN /\ pc' = "entry"
                      /\ missed' = missed \cup EligibleIn(prog, <<e>>, mode, history)
                      /\ UNCHANGED content
                 ELSE /\ content' = Item(mode, e, d.text, d.image)
                      /\ pc' = "fetched"
                      /\ UNCHANGED missed
    /\ UNCHANGED <<genVars, published,
                   worldVars, postVars, history, attempt, posted_successfully,
                   mode, idx, feed, pos, post_text, raised, exit_code, all_matched>>

\* __main__: "if not content": the next attempt (viral_bot.py) or exit()
\* (plan.py); else generate the post.
Fetched ==
    /\ pc = "fetched"
    /\ IF content = None
       THEN NextAttemptOrEnd
       ELSE pc' = "gen" /\ UNCHANGED <<attempt, exit_code, content, post_text>>
    /\ FetchLocalsGone
    /\ UNCHANGED <<genVars, published,
                   worldVars, postVars, history, posted_successfully, raised>>

\* The outcomes of one HTTP request: the success status the code tests
\* for, another status, an exception.
Outcomes == {"ok", "error", "raise"}

\* ------------------------------------------------ generate_viral_post
\* viral_bot.py: post_text = generate_viral_post(content): one request to
\* one model; the text of the post, or None when the request fails (every
\* exception is caught inside).  "if not post_text": the next attempt.
Generate ==
    /\ pc = "gen"
    /\ prog = "viral"
    /\ \E text \in {"", "post"} :
           IF text = ""
           THEN NextAttemptOrEnd
           ELSE /\ post_text' = text
                /\ pc' = "post"
                /\ UNCHANGED <<attempt, exit_code, content>>
    /\ UNCHANGED <<genVars, published,
                   worldVars, fetchVars, postVars, history, posted_successfully,
                   raised>>

\* plan.py: model names, as sequences of words.
FlashModel == <<"gemini", "1.5", "flash">>
FlashLatestModel == <<"gemini", "1.5", "flash", "latest">>
ProModel == <<"gemini", "1.0", "pro">>
FlashExpModel == <<"gemini", "2.0", "flash", "exp">>
EmbeddingModel == <<"embedding", "001">>

\* The list returned when the models cannot be listed.
FallbackModels == <<FlashModel, FlashLatestModel, ProModel, FlashExpModel>>

\* One model of the answer of the models endpoint.
ApiModel(name, methods) ==
    [name |-> <<"models/">> \o name, supportedGenerationMethods |-> methods]

\* The answers of the models endpoint.
ApiAnswers ==
    { <<>>,
      << ApiModel(ProModel, {"generateContent"}),
         ApiModel(EmbeddingModel, {"embedContent"}),
         ApiModel(FlashModel, {"generateContent", "countTokens"}) >> }

\* m['name'].replace('models/', '')
StripPrefix(name) == SelectSeq(name, LAMBDA w : w # "models/")

\* The sort key ('flash' not in x, 'pro' in x), as a rank.
ModelRank(x) ==
    (IF Contains(x, <<"flash">>) THEN 0 ELSE 2) + (IF Contains(x, <<"pro">>) THEN 1 ELSE 0)

\* models.sort(key=...): a stable sort.
SortModels(ms) ==
    SelectSeq(ms, LAMBDA x : ModelRank(x) = 0) \o SelectSeq(ms, LAMBDA x : ModelRank(x) = 1)
        \o SelectSeq(ms, LAMBDA x : ModelRank(x) = 2)
        \o SelectSeq(ms, LAMBDA x : ModelRank(x) = 3)

\* fetch_available_models(): the models of the answer that support
\* generateContent, sorted; the fallback list when the request does not
\* answer 200 or raises.
fetch_available_models(outcome, answer) ==
    IF outcome = "ok"
    THEN LET able == SelectSeq(answer,
                 LAMBDA m : "generateContent" \in m.supportedGenerationMethods)
         IN SortModels([k \in 1..Len(able) |-> StripPrefix(able[k].name)])
    ELSE FallbackModels

\* The answers to a generateContent request: 200 with a text, 200 without
\* one, 429, another status, an exception.
GenOutcomes == {"ok", "empty", "429", "error", "raise"}

\* The locals of generate_viral_post end with its call.
GenLocalsGone ==
    /\ valid_models' = <<>>
    /\ mi' = 0
    /\ gen_status' = ""
    /\ requested' = <<>>

\* plan.py: valid_models = fetch_available_models()
PlanModels ==
    /\ pc = "gen"
    /\ prog = "plan"
    /\ \E outcome \in Outcomes, answer \in ApiAnswers :
           valid_models' = fetch_available_models(outcome, answer)
    /\ mi' = 0
    /\ gen_status' = ""
    /\ requested' = <<>>
    /\ pc' = "gen_req"
    /\ UNCHANGED <<published, worldVars, fetchVars, postVars, history, attempt,
                   posted_successfully, content, post_text, raised, exit_code>>

\* plan.py: "for model in valid_models": the request to the next model.
PlanRequest ==
    /\ pc = "gen_req"
    /\ mi < Len(valid_models)
    /\ mi' = mi + 1
    /\ requested' = Append(requested, valid_models[mi + 1])
    /\ gen_status' \in GenOutcomes
    /\ pc' = "gen_resp"
    /\ UNCHANGED <<published, worldVars, fetchVars, postVars, history, attempt,
                   posted_successfully, content, post_text, raised, exit_code,
                   valid_models>>

\* plan.py: 200 with a text returns it; 429 sleeps; every other answer,
\* and an exception, goes on with the next model.
PlanResponse ==
    /\ pc = "gen_resp"
    /\ CASE gen_status = "ok" ->
              /\ post_text' = "post"
              /\ pc' = "post"
              /\ GenLocalsGone
         [] gen_status = "429" ->
              /\ pc' = "gen_sleep"
              /\ UNCHANGED <<post_text, genVars>>
         [] OTHER ->
              /\ pc' = "gen_req"
              /\ UNCHANGED <<post_text, genVars>>
    /\ UNCHANGED <<published, worldVars, fetchVars, postVars, history, attempt,
                   posted_successfully, content, raised, exit_code>>

\* A loop that asks the model that answered 429 again after the sleep.
PlanSleep_SameModel ==
    /\ pc = "gen_sleep"
    /\ mi' = mi - 1
    /\ pc' = "gen_req"
    /\ UNCHANGED <<published, worldVars, fetchVars, postVars, history, attempt,
                   posted_successfully, content, post_text, raised, exit_code,
                   valid_models, gen_status, requested>>

\* plan.py: time.sleep(60), then "continue".
PlanSleep ==
    /\ pc = "gen_sleep"
    /\ pc' = "gen_req"
    /\ UNCHANGED <<published, worldVars, fetchVars, postVars, history, attempt,
                   posted_successfully, content, post_text, raised, exit_code,
                   genVars>>

\* plan.py: the list is used up: return None, and __main__ exits.
PlanModelsFailed ==
    /\ pc = "gen_req"
    /\ mi = Len(valid_models)
    /\ NextAttemptOrEnd
    /\ GenLocalsGone
    /\ UNCHANGED <<published, worldVars, fetchVars, postVars, history,
                   posted_successfully, raised>>

\* --------------------------------------------------- post_to_linkedin
\* The ugcPosts body: shareMediaCategory and whether media names an asset.
PostBody(a) ==
    [category |-> IF a # "" THEN "IMAGE" ELSE "NONE", media |-> a # ""]

\* post_to_linkedin returns r.
PostReturn(r) ==
    /\ post_result' = r
    /\ pc' = "post_ret"

\* plan.py: asset = None; with an image_url, registerUpload inside the try:
\* on 200 the asset is taken from the answer; any other status and any
\* exception leave it None.
PlanRegister ==
    /\ pc = "post"
    /\ prog = "plan"
    /\ ugc' = None
    /\ up_ok' = FALSE
    /\ final_ok' = FALSE
    /\ IF content.image_url = NoUrl
       THEN /\ asset' = ""
            /\ reg_ok' = FALSE
            /\ pc' = "post_final"
       ELSE \E reg \in Outcomes :
                /\ reg_ok' = (reg = "ok")
                /\ asset' = IF reg = "ok" THEN "asset" ELSE ""
                /\ pc' = IF reg = "ok" THEN "post_up" ELSE "post_final"
    /\ UNCHANGED <<genVars, published,
                   worldVars, fetchVars, history, attempt, posted_successfully,
                   content, post_text, post_result, raised, exit_code>>

\* plan.py: requests.put(upload_url, data=requests.get(image_url).content),
\* still inside the try.  Neither status is read and "except: pass" drops
\* an exception; asset keeps its value.
PlanUpload ==
    /\ pc = "post_up"
    /\ prog = "plan"
    /\ \E get \in {"ok", "raise"}, put \in Outcomes :
           up_ok' = (get = "ok" /\ put = "ok")
    /\ pc' = "post_final"
    /\ UNCHANGED <<genVars, published,
                   worldVars, fetchVars, history, attempt, posted_successfully,
                   content, post_text, asset, reg_ok, ugc, final_ok, post_result,
                   raised, exit_code>>

\* plan.py: the ugcPosts request, outside any try: 201 returns True, any
\* other status False.
PlanFinal ==
    /\ pc = "post_final"
    /\ prog = "plan"
    /\ ugc' = PostBody(asset)
    /\ \E final \in Outcomes :
           /\ final_ok' = (final = "ok")
           /\ published' = IF final = "ok" THEN published + 1 ELSE published
           /\ IF final = "raise"
              THEN Raise("post_to_linkedin") /\ UNCHANGED post_result
              ELSE PostReturn(final = "ok") /\ UNCHANGED <<raised, exit_code>>
    /\ UNCHANGED <<genVars,
                   worldVars, fetchVars, history, attempt, posted_successfully,
                   content, post_text, asset, reg_ok, up_ok>>

\* viral_bot.py: the image is downloaded first, inside a try whose handler
\* returns False.
ViralDownload ==
    /\ pc = "post"
    /\ prog = "viral"
    /\ asset' = ""
    /\ reg_ok' = FALSE
    /\ up_ok' = FALSE
    /\ ugc' = None
    /\ final_ok' = FALSE
    /\ \E get \in {"ok", "raise"} :
           IF get = "ok"
           THEN pc' = "post_reg" /\ UNCHANGED post_result
           ELSE PostReturn(FALSE)
    /\ UNCHANGED <<genVars, published,
                   worldVars, fetchVars, history, attempt, posted_successfully,
                   content, post_text, raised, exit_code>>

\* viral_bot.py: registerUpload, outside any try: a status other than 200
\* returns False.
ViralRegister ==
    /\ pc = "post_reg"
    /\ prog = "viral"
    /\ \E reg \in Outcomes :
           /\ reg_ok' = (reg = "ok")
           /\ asset' = IF reg = "ok" THEN "asset" ELSE ""
           /\ CASE reg = "ok" ->
                     pc' = "post_up" /\ UNCHANGED <<post_result, raised, exit_code>>
                [] reg = "error" ->
                     PostReturn(FALSE) /\ UNCHANGED <<raised, exit_code>>
                [] OTHER ->
                     Raise("post_to_linkedin") /\ UNCHANGED post_result
    /\ UNCHANGED <<genVars, published,
                   worldVars, fetchVars, history, attempt, posted_successfully,
                   content, post_text, up_ok, ugc, final_ok>>

\* viral_bot.py: the binary upload: a status other than 201 returns False.
ViralUpload ==
    /\ pc = "post_up"
    /\ prog = "viral"
    /\ \E put \in Outcomes :
           /\ up_ok' = (put = "ok")
           /\ CASE put = "ok" ->
                     pc' = "post_final" /\ UNCHANGED <<post_result, raised, exit_code>>
                [] put = "error" ->
                     PostReturn(FALSE) /\ UNCHANGED <<raised, exit_code>>
                [] OTHER ->
                     Raise("post_to_linkedin") /\ UNCHANGED post_result
    /\ UNCHANGED <<genVars, published,
                   worldVars, fetchVars, history, attempt, posted_successfully,
                   content, post_text, asset, reg_ok, ugc, final_ok>>

\* viral_bot.py: the ugcPosts request, always with the IMAGE category and
\* the asset: 201 returns True, any other status False.
ViralFinal ==
    /\ pc = "post_final"
    /\ prog = "viral"
    /\ ugc' = PostBody(asset)
    /\ \E final \in Outcomes :
           /\ final_ok' = (final = "ok")
           /\ published' = IF final = "ok" THEN published + 1 ELSE published
           /\ IF final = "raise"
              THEN Raise("post_to_linkedin") /\ UNCHANGED post_result
              ELSE PostReturn(final = "ok") /\ UNCHANGED <<raised, exit_code>>
    /\ UNCHANGED <<genVars,
                   worldVars, fetchVars, history, attempt, posted_successfully,
                   content, post_text, asset, reg_ok, up_ok>>

\* ------------------------------------------------------- save_history
\* __main__ after post_to_linkedin returned True: save_history(history,
\* content['title'], content['link']).  The entry is appended to the
\* caller's list; the last 200 records of it are written to history.json.
\* viral_bot.py then sets posted_successfully; plan.py ends.
Published ==
    /\ pc = "post_ret"
    /\ post_result
    /\ LET entry == HistoryEntry(prog, content.title, content.link, run)
           appended == Append(history, entry)
       IN /\ history' = CallerList(appended)
          /\ file' = SavedFile(appended)
          /\ saved' = saved \cup {[link |-> content.link, entry |-> entry]}
    /\ posted_successfully' = (prog = "viral")
    /\ NextAttemptOrEnd
    /\ PostLocalsGone
    /\ UNCHANGED <<genVars, published, prog, run, creds, fetchVars, raised>>

\* A main program that saves the record whatever post_to_linkedin returned.
NotPublished_Saves ==
    /\ pc = "post_ret"
    /\ ~post_result
    /\ history' = Append(history, HistoryEntry(prog, content.title, content.link, run))
    /\ file' = SavedFile(history')
    /\ NextAttemptOrEnd
    /\ PostLocalsGone
    /\ UNCHANGED <<genVars, published,
                   prog, run, creds, saved, fetchVars, posted_successfully, raised>>

\* __main__ after post_to_linkedin returned False: the next attempt
\* (viral_bot.py), or the end of the script (plan.py).
NotPublished ==
    /\ pc = "post_ret"
    /\ ~post_result
    /\ NextAttemptOrEnd
    /\ PostLocalsGone
    /\ UNCHANGED <<genVars, published,
                   worldVars, fetchVars, history, posted_successfully, raised>>

\* ---------------------------------------------------------- the runs
\* The next scheduled run: a new process, with what history.json holds.
NextRun ==
    /\ pc = "done"
    /\ run < MaxRuns
    /\ run' = run + 1
    /\ creds' \in CredSets
    /\ pc' = "start"
    /\ history' = <<>>
    /\ attempt' = 0
    /\ posted_successfully' = FALSE
    /\ mode' = "NEWS"
    /\ idx' = 0
    /\ feed' = <<>>
    /\ pos' = 0
    /\ details' = None
    /\ content' = None
    /\ post_text' = ""
    /\ asset' = ""
    /\ reg_ok' = FALSE
    /\ up_ok' = FALSE
    /\ ugc' = None
    /\ final_ok' = FALSE
    /\ post_result' = FALSE
    /\ raised' = ""
    /\ exit_code' = 0
    /\ missed' = {}
    /\ all_matched' = TRUE
    /\ valid_models' = <<>>
    /\ mi' = 0
    /\ gen_status' = ""
    /\ requested' = <<>>
    /\ published' = 0
    /\ UNCHANGED <<prog, file, saved>>

Next ==
    \/ Start
    \/ Load
    \/ LoopHead
    \/ FetchStart
    \/ FetchExhausted
    \/ ParseFeed
    \/ ParseError
    \/ FeedDone
    \/ EntryMalformed
    \/ EntryPosted
    \/ EntryNew
    \/ ExtractPlan
    \/ ExtractViral
    \/ Fetched
    \/ Generate
    \/ PlanModels
    \/ PlanRequest
    \/ PlanResponse
    \/ PlanSleep
    \/ PlanModelsFailed
    \/ PlanRegister
    \/ PlanUpload
    \/ PlanFinal
    \/ ViralDownload
    \/ ViralRegister
    \/ ViralUpload
    \/ ViralFinal
    \/ Published
    \/ NotPublished
    \/ NextRun

Spec == Init /\ [][Next]_vars

\* ------------------------------------------------------------- claims
InSeq(x, s) == \E i \in 1..Len(s) : s[i] = x

\* The text of a link before its first "?" (all of it when it has none).
BeforeQuery(l) ==
    LET qs == {i \in 1..Len(l) : l[i] = "?"}
    IN IF qs = {} THEN l
       ELSE SubSeq(l, 1, (CHOOSE i \in qs : \A j \in qs : i <= j) - 1)

\* The candidate links and titles the claims range over: a title that a
\* record holds and one that no record holds.
CandidateLinks ==
    {LA, LAq, LB, LBq, LC, <<"a", "?">>, <<"a", "?", "?">>, <<"a", "u">>,
     <<"b", "?", "v">>, <<"c", "?", "a">>, <<"?", "a">>}
CandidateTitles == {"T1", "T9"}

\* C1: for every link L that save_history has recorded and whose record is
\* still in the history, is_already_posted(C, t, history) is true for every
\* candidate link C that equals L before the first "?", whatever the title
\* t is.
C1_NormalizedLinkFound ==
    \A s \in saved :
        InSeq(s.entry, history) =>
            \A c \in CandidateLinks :
                BeforeQuery(c) = BeforeQuery(s.link) =>
                    \A t \in CandidateTitles : is_already_posted(prog, c, t, history)

\* C1's case: a later run meets the link "a" after an earlier run recorded
\* "a?u", under a title the history does not hold.
C1_Witness ==
    /\ run = 2
    /\ pc = "entry"
    /\ pos < Len(feed)
    /\ feed[pos + 1].link = LA
    /\ \A i \in 1..Len(history) : history[i].title # feed[pos + 1].title
    /\ \E s \in saved : s.link = LAq /\ InSeq(s.entry, history)

\* C2: the history never holds more than 200 records, as the list the
\* caller keeps using and as the array in history.json, and after a save
\* both are the 200 most recently appended records in insertion order.
C2_StoreCapped ==
    /\ Len(history) <= HistoryCap
    /\ Len(file) <= HistoryCap
    /\ (pc \in {"loop", "done"} /\ posted_successfully) => history = file

\* C3: the extractor is never called for an entry whose normalized link is
\* a stored web_link or whose title is a stored title, and fetch_content
\* returns None when every entry of every feed it consulted is such an
\* entry.
C3_DedupBeforeExtract ==
    /\ pc = "extract" => ~InHistory(prog, feed[pos], history)
    /\ (pc = "fetched" /\ all_matched) => content = None
    /\ raised = "fetch_content" => ~all_matched

\* C4: fetch_content returns the first entry, in source order and then in
\* feed order inside each top-N window, that is not in history and whose
\* extraction succeeds, and None if and only if the windows hold no such
\* entry.
C4_FirstFit ==
    pc = "fetched" =>
        /\ missed = {}
        /\ content # None =>
               /\ Eligible(prog, feed[pos], mode, history)
               /\ content.title = feed[pos].title
               /\ content.link = feed[pos].link

\* The document the extractor is called for, and the length of its body
\* text as the running program extracts it.
CurDoc == Page(feed[pos].page)
CurBodyLen == BodyLen(prog, CurDoc)

\* C5: for a fetched document whose body text is shorter than 600
\* characters the extractor returns None and fetch_content goes on with the
\* next entry; no item fetch_content returns has a text that was shorter
\* than 600 before truncation.
C5_ShortTextRejected ==
    /\ [](pc = "fetched" /\ content # None => CurBodyLen >= 600)
    /\ [][(pc = "extract" /\ ~CurDoc.exc /\ CurBodyLen < 600) =>
             (details' = None /\ content' = None /\ pc' = "entry")]_vars

\* C5's case: a new entry whose page holds 400 characters of text has been
\* extracted and discarded.
C5_Witness ==
    /\ pc = "entry"
    /\ pos > 0
    /\ feed[pos].page = "short"
    /\ CurBodyLen = 400
    /\ ~InHistory(prog, feed[pos], history)
    /\ details = None

\* C6: when the download of a candidate answers with a status that is not
\* a success, the extractor returns None for it.
C6_NonSuccessStatusRejected ==
    [][(pc = "extract" /\ ~CurDoc.exc /\ CurDoc.status # 200) =>
         (details' = None /\ pc' = "entry")]_vars

\* The image URLs a document offers to the five strategies.
CandidateImages(doc) ==
    ({doc.twitter, doc.og}
        \cup {doc.hero[i] : i \in 1..Len(doc.hero)}
        \cup {doc.imgs[i].src : i \in 1..Len(doc.imgs)}) \ {NoUrl}

\* C7: the image get_article_details chooses holds no excluded marker
\* whenever the document offers a candidate image that holds none.
C7_NoExcludedImage ==
    (pc = "fetched" /\ prog = "viral" /\ content # None) =>
        (HasSkipMarker(content.image_url) =>
            \A u \in CandidateImages(CurDoc) : HasSkipMarker(u))

\* C8: in viral_bot.py, when strategies 1 to 5 find no image,
\* get_article_details returns a result with one of FALLBACK_IMAGES in
\* CONCEPT mode and None in NEWS mode; every item fetch_content returns has
\* an image_url, and in CONCEPT mode a document that passes the text gate
\* is never rejected.
C8_FallbackImage ==
    /\ []((pc = "fetched" /\ prog = "viral" /\ content # None) =>
             content.image_url # NoUrl)
    /\ [][(pc = "extract" /\ prog = "viral" /\ ~CurDoc.exc /\ CurBodyLen >= 600) =>
             /\ mode = "CONCEPT" => details' # None
             /\ ImageCascade(CurDoc) = NoUrl =>
                    IF mode = "CONCEPT"
                    THEN /\ details' # None
                         /\ InSeq(details'.image, FALLBACK_IMAGES)
                         /\ content' # None
                         /\ content'.image_url = details'.image
                    ELSE details' = None /\ pc' = "entry"]_vars

\* C8's case: fetch_content returns an item whose page offers no image,
\* with the third fallback image.
C8_Witness ==
    /\ pc = "fetched"
    /\ prog = "viral"
    /\ content # None
    /\ ImageCascade(CurDoc) = NoUrl
    /\ content.image_url = FALLBACK_IMAGES[3]

\* C9: an error on one feed, an entry without link or title included,
\* never leaves fetch_content as an exception.
C9_FeedErrorsSoft == raised # "fetch_content"

\* C10: when post_to_linkedin is given an image and the registration or
\* the upload of the image fails, the ugcPosts request is still sent, as a
\* text-only post, and its status decides the result.
C10_ImageFailureDegrades ==
    /\ (pc = "post_ret" /\ content.image_url # NoUrl /\ ~(reg_ok /\ up_ok)) =>
           /\ ugc = PostBody("")
           /\ post_result = final_ok
    /\ raised = "post_to_linkedin" => ugc # None

\* C11: the ugcPosts request of post_to_linkedin names an image asset
\* (category IMAGE with a media entry) only if the registerUpload request
\* and the binary upload both completed successfully before it was sent.
C11_ImageOnlyAfterHandshake ==
    (ugc # None /\ ugc.media) => (reg_ok /\ up_ok)

\* C12: when one of LINKEDIN_TOKEN, LINKEDIN_URN and GEMINI_API_KEY is
\* missing or empty, the process exits before it loads history, fetches a
\* feed, scrapes a page or calls the generation or the publishing API: it
\* is at its start or has ended, with status 1 and nothing loaded.
C12_MissingCredentialsFatal ==
    creds # EnvVars =>
        /\ pc \in {"start", "done"}
        /\ pc = "done" => (exit_code = 1 /\ history = <<>> /\ attempt = 0)

EntrySteps == 2 * (Len(feed) - pos) + 1
SourceSteps == 2 * TopN_plan + 3
MaxSources == NumSources("viral", "CONCEPT")
FetchLeft ==
    CASE pc = "fetch" -> MaxSources * SourceSteps + 2
      [] pc = "next_feed" -> (NumSources(prog, mode) - idx) * SourceSteps + 1
      [] pc = "entry" -> (NumSources(prog, mode) - idx) * SourceSteps + 1 + EntrySteps
      [] pc = "extract" -> (NumSources(prog, mode) - idx) * SourceSteps + 2 + EntrySteps
      [] OTHER -> 0

\* What is left of the list of models: three steps for a model (the
\* request, its answer, the sleep).
GenLeft ==
    CASE pc = "gen" -> 3 * Len(FallbackModels) + 2
      [] pc = "gen_req" -> 3 * (Len(valid_models) - mi) + 1
      [] pc = "gen_resp" -> 3 * (Len(valid_models) - mi) + 3
      [] pc = "gen_sleep" -> 3 * (Len(valid_models) - mi) + 2
      [] OTHER -> 0

PostLeft ==
    CASE pc = "post" -> 5
      [] pc = "post_reg" -> 4
      [] pc = "post_up" -> 3
      [] pc = "post_final" -> 2
      [] pc = "post_ret" -> 1
      [] OTHER -> 0

\* The most steps one pass through fetch, generate and publish can take.
GenSteps == 3 * Len(FallbackModels) + 2
FetchSteps == MaxSources * SourceSteps + 2
AttemptSteps == 5 + GenSteps + 1 + FetchSteps + 2

\* The steps left in the current pass.
PassLeft ==
    CASE pc = "loop" -> 5 + GenSteps + 1 + FetchSteps + 1
      [] pc \in {"fetch", "next_feed", "entry", "extract", "fetched"} ->
             5 + GenSteps + 1 + FetchLeft
      [] pc \in {"gen", "gen_req", "gen_resp", "gen_sleep"} -> 5 + GenLeft
      [] OTHER -> PostLeft

\* A bound on the steps the run has left.
StepsLeft ==
    CASE pc = "done" -> 0
      [] pc = "start" -> (MaxAttempts + 2) * AttemptSteps + 2
      [] pc = "load" -> (MaxAttempts + 2) * AttemptSteps + 1
      [] OTHER -> (MaxAttempts + 1 - attempt) * AttemptSteps + PassLeft

NoDuplicates(s) == \A i, j \in 1..Len(s) : s[i] = s[j] => i = j

\* C14: every run terminates when each blocking call returns: each step
\* of a run lowers a bound on the steps that are left, which is never
\* negative.  The main loop of viral_bot.py runs its body for at most 5
\* attempts, a call of fetch_content takes each source of the chosen group
\* at most once (one after the other, never back) and at most N entries of
\* a source, and generate_viral_post of plan.py requests each model of its
\* list at most once.
C14_RunTerminates ==
    /\ [](StepsLeft >= 0)
    /\ [][pc # "done" => StepsLeft' < StepsLeft]_vars
    /\ [](attempt <= MaxAttempts + 1)
    /\ []((prog = "viral" /\ pc \notin {"start", "load", "loop", "done"}) =>
              attempt \in 1..MaxAttempts)
    /\ [](idx <= NumSources(prog, mode) /\ pos <= Len(feed) /\ Len(feed) <= TopN(prog))
    /\ [][/\ idx' # idx => (idx' = idx + 1 \/ idx' = 0)
          /\ pos' # pos => (pos' = pos + 1 \/ pos' = 0)]_vars
    /\ [](NoDuplicates(requested) /\ Len(requested) <= Len(valid_models))

\* viral_bot.py used its five attempts and ended.
C14_Witness ==
    /\ prog = "viral"
    /\ pc = "done"
    /\ attempt = MaxAttempts + 1
    /\ exit_code = 1

\* C15: when post_to_linkedin failed for a candidate (it returned False),
\* the run either goes on to another attempt, which fetches a candidate
\* anew, or ends with a non-zero exit status; the attempts are counted, so
\* a candidate is submitted at most MaxAttempts times in a run, and a run
\* whose attempts are used up without a publish ends with a non-zero status.
C15_PublishFailureReported ==
    /\ [][(pc = "post_ret" /\ ~post_result) =>
              \/ pc' = "loop" /\ attempt' = attempt + 1
              \/ pc' = "done" /\ exit_code' # 0]_vars
    /\ [][(pc = "loop" /\ attempt > MaxAttempts /\ ~posted_successfully) =>
              (pc' = "done" /\ exit_code' # 0)]_vars
    /\ [](pc \in {"post", "post_reg", "post_up", "post_final", "post_ret"} =>
              attempt <= MaxAttempts)

GenPcs == {"gen_req", "gen_resp", "gen_sleep"}

\* C16: generate_viral_post of plan.py requests the models in the order of
\* its list, each request going to the model after the last one requested.
\* An answer 429 is followed by the sleep and then by the request to the
\* next model (or the end of the list), never by a second request to the
\* model that answered 429.  The text is returned exactly at the first
\* answer 200 that has one; None is returned only when every model of the
\* list was requested once and none of them answered so.
C16_ModelsInOrder ==
    /\ [](requested = SubSeq(valid_models, 1, Len(requested)))
    /\ [][(pc = "gen_req" /\ pc' = "gen_resp") =>
              /\ requested' = Append(requested, valid_models[Len(requested) + 1])
              /\ ~InSeq(valid_models[Len(requested) + 1], requested)]_vars
    /\ [](pc = "gen_sleep" => gen_status = "429")
    /\ [][(pc = "gen_resp" /\ gen_status = "429") => pc' = "gen_sleep"]_vars
    /\ [][pc = "gen_sleep" => (pc' = "gen_req" /\ requested' = requested)]_vars
    /\ [](pc \in {"gen_req", "gen_sleep"} => gen_status # "ok")
    /\ [][(pc = "gen_resp" /\ gen_status = "ok") =>
              (pc' = "post" /\ post_text' # "")]_vars
    /\ [][(pc \in GenPcs /\ pc' = "post") => (pc = "gen_resp" /\ gen_status = "ok")]_vars
    /\ [][(pc \in GenPcs /\ pc' = "done") =>
              /\ pc = "gen_req"
              /\ Len(requested) = Len(valid_models)
              /\ NoDuplicates(requested)
              /\ post_text' = ""]_vars

\* The second model of the fallback list answered 429: the sleep, with
\* two models still to request.
C16_Witness ==
    /\ pc = "gen_sleep"
    /\ valid_models = FallbackModels
    /\ requested = <<FlashModel, FlashLatestModel>>

\* The records of the list that this run appended.
AppendedThisRun == {i \in 1..Len(history) : history[i].date = run}

C18_NoRepublish ==
    (pc = "post_ret" /\ post_result) =>
        /\ \A i \in 1..Len(file) :
               /\ file[i].web_link # NormLink(prog, content.link)
               /\ file[i].title # content.title
        /\ \A s \in saved :
               InSeq(s.entry, file) =>
                   /\ NormLink(prog, s.link) # NormLink(prog, content.link)
                   /\ s.entry.title # content.title

\* The second run publishes an item while the file holds the record of the
\* item the first run published.
C18_Witness ==
    /\ pc = "post_ret"
    /\ post_result
    /\ run = 2
    /\ \E s \in saved : InSeq(s.entry, file) /\ s.entry.date = 1

\* The second run publishes the item titled "T1" again: its record was the
\* oldest of a full file and the first run's record took its place.
C18_EvictedWitness ==
    /\ pc = "post_ret"
    /\ post_result
    /\ run = 2
    /\ content.title = "T1"
    /\ Len(file) = HistoryCap
====
